---- MODULE Spec2Model ----
(***************************************************************************)
(* A model of devto_top_month_rss.py: the retrying JSON fetcher, the HTML  *)
(* paragraph extractor and the refresh cycle that writes the feed and the  *)
(* state file.                                                             *)
(*                                                                         *)
(* Text is a sequence of tokens: a token is a whitespace character, a      *)
(* markup character or a run of ordinary characters. An optional value     *)
(* (Python's None or a value) is a sequence of length 0 or 1.              *)
(***************************************************************************)
EXTENDS Integers, Sequences, FiniteSets, TLC

VARIABLES
    \* extract_paragraphs: its two arguments and its return value; xpc is
    \* the position of the function called on its own
    body_html, fallback_text, paragraphs, xpc,
    \* the body of the loop of collect_items on its own: the article summary,
    \* the article detail and the item built
    n_article, n_detail, n_item,
    \* build_rss on its own: its argument and its return value
    r_items, rss,
    \* the responder thread: the content of the feed file its last read saw
    served,
    \* main: the command line (args.serve, args.daemon, args.limit), the
    \* position of the main thread, the HTTP responder and how main ended
    serve, daemon, limit, pc, server, exit_kind,
    \* fetch_json: the URL fetched ("top" or "detail"), the loop variable,
    \* last_response, the returned JSON, and what the call did so far: the
    \* number of GETs, the status codes received, the number of sleeps and
    \* the delay of the last sleep
    f_target, attempt, last_response, f_result, gets, statuses, sleeps, last_delay,
    last_wait,
    \* collect_items: top_articles, the position in top_articles[:limit], items
    top_articles, idx, items,
    \* the two files: args.output and args.state_file
    feed_file, state_file,
    \* refresh: the locals state and new_ids, and its return value
    state, new_ids, count,
    \* history: the number of refresh cycles started, the files as they were
    \* when the current cycle started, and the latest_ids lists written to the
    \* state file so far (the last one last)
    cycle, feed_at_start, state_at_start, persisted

varsApart ==
    <<body_html, fallback_text, paragraphs, xpc, n_article, n_detail, n_item,
      r_items, rss, served>>

varsConfig == <<serve, daemon, limit>>

varsFetch ==
    <<f_target, attempt, last_response, f_result, gets, statuses, sleeps, last_delay,
      last_wait>>

varsCollect == <<top_articles, idx, items>>

varsFiles == <<feed_file, state_file>>

varsRefresh == <<state, new_ids, count>>

varsHistory == <<cycle, feed_at_start, state_at_start, persisted>>

varsCycle ==
    <<varsConfig, pc, server, exit_kind, varsFetch, varsCollect, varsFiles,
      varsRefresh, varsHistory>>

vars == <<varsApart, varsCycle>>

(***************************************************************************)
(* Bounds of the model.                                                    *)
(***************************************************************************)
\* number of regular (non-empty) block nodes in the middle of a document
MaxNodes == 22
\* number of freely chosen elements in front of the regular nodes
MaxPrefix == 2
\* article identifiers are 1..MaxId
MaxId == 4
\* number of refresh cycles one run of main starts
MaxCycles == 2

(***************************************************************************)
(* Text helpers.                                                           *)
(***************************************************************************)
None == <<>>
Some(v) == <<v>>

Range(s) == {s[i] : i \in 1..Len(s)}

Min(a, b) == IF a <= b THEN a ELSE b

\* the characters str.strip() removes
Whitespace == {" ", "\n"}

RECURSIVE lstrip(_)
lstrip(t) ==
    IF t # <<>> /\ Head(t) \in Whitespace THEN lstrip(Tail(t)) ELSE t

RECURSIVE rstrip(_)
rstrip(t) ==
    IF t # <<>> /\ t[Len(t)] \in Whitespace
    THEN rstrip(SubSeq(t, 1, Len(t) - 1))
    ELSE t

\* str.strip()
strip(t) == rstrip(lstrip(t))

\* sep.join(texts)
RECURSIVE join(_, _)
join(sep, texts) ==
    IF texts = <<>> THEN <<>>
    ELSE IF Len(texts) = 1 THEN texts[1]
    ELSE texts[1] \o sep \o join(sep, Tail(texts))

\* Tag.stripped_strings: every descendant string stripped, the empty ones
\* dropped
RECURSIVE stripped_strings(_)
stripped_strings(strings) ==
    IF strings = <<>> THEN <<>>
    ELSE LET s == strip(Head(strings))
         IN  (IF s = <<>> THEN <<>> ELSE <<s>>) \o stripped_strings(Tail(strings))

\* " ".join(node.stripped_strings)
NodeText(node) == join(<<" ">>, stripped_strings(node.strings))

(***************************************************************************)
(* extract_paragraphs                                                      *)
(***************************************************************************)
BlockTags == {"p", "blockquote", "li"}

UnavailableText ==
    <<"Top", " ", "DEV.to", " ", "article", " ", "snippet", " ", "unavailable.">>

ReadRestText ==
    <<"Read", " ", "the", " ", "rest", " ", "of", " ", "the", " ", "article",
      " ", "at", " ", "the", " ", "source.">>

\* the loop's break: stop as soon as this many snippets are collected
SnippetCap == 20
\* below this many snippets the fallback and the placeholder are appended
MinSnippets == 2
\* the slice of the return statement
ResultCap == 21

\* soup.find_all(tags): the elements with one of the tags, in document order
find_all(doc, tags) == SelectSeq(doc, LAMBDA e : e.tag \in tags)

\* CollectLoop without the "if not text: continue" of the loop
RECURSIVE CollectLoop_KeepsEmpty(_, _)
CollectLoop_KeepsEmpty(nodes, acc) ==
    IF nodes = <<>> THEN acc
    ELSE LET text == NodeText(Head(nodes))
         IN  IF Len(acc) + 1 >= SnippetCap THEN Append(acc, text)
             ELSE CollectLoop_KeepsEmpty(Tail(nodes), Append(acc, text))

\* the for loop: the non-empty texts of the nodes, until SnippetCap are
\* collected
RECURSIVE CollectLoop(_, _)
CollectLoop(nodes, acc) ==
    IF nodes = <<>> THEN acc
    ELSE LET text == NodeText(Head(nodes))
         IN  IF text = <<>> THEN CollectLoop(Tail(nodes), acc)
             ELSE IF Len(acc) + 1 >= SnippetCap THEN Append(acc, text)
             ELSE CollectLoop(Tail(nodes), Append(acc, text))

\* AppendFallback with the threshold off by one (len(paragraphs) < 1)
AppendFallback_OnlyWhenEmpty(ps, fallback) ==
    IF Len(ps) < MinSnippets - 1 /\ fallback # None /\ fallback[1] # <<>>
    THEN Append(ps, fallback[1])
    ELSE ps

\* if len(paragraphs) < 2 and fallback_text: paragraphs.append(fallback_text)
AppendFallback(ps, fallback) ==
    IF Len(ps) < MinSnippets /\ fallback # None /\ fallback[1] # <<>>
    THEN Append(ps, fallback[1])
    ELSE ps

\* AppendUnavailable with the placeholder forgotten
AppendUnavailable_Never(ps) == ps

\* if len(paragraphs) < 2: paragraphs.append("Top DEV.to article ...")
AppendUnavailable(ps) ==
    IF Len(ps) < MinSnippets THEN Append(ps, UnavailableText) ELSE ps

\* total_paragraphs: the number of nodes of the whole document with a
\* non-empty text
total_paragraphs(doc) ==
    Len(SelectSeq(find_all(doc, BlockTags), LAMBDA n : NodeText(n) # <<>>))

\* AppendReadRest without the test of total_paragraphs
AppendReadRest_IgnoresTotal(ps, doc) ==
    IF Len(ps) >= SnippetCap THEN Append(ps, ReadRestText) ELSE ps

\* if total_paragraphs > 20 and len(paragraphs) >= 20: append the marker
AppendReadRest(ps, doc) ==
    IF total_paragraphs(doc) > SnippetCap /\ Len(ps) >= SnippetCap
    THEN Append(ps, ReadRestText)
    ELSE ps

extract_paragraphs(doc, fallback) ==
    LET collected == CollectLoop(find_all(doc, BlockTags), <<>>)
        withFallback == AppendFallback(collected, fallback)
        withUnavailable == AppendUnavailable(withFallback)
        withReadRest == AppendReadRest(withUnavailable, doc)
    IN  SubSeq(withReadRest, 1, Min(Len(withReadRest), ResultCap))

(***************************************************************************)
(* The documents and fallback texts extract_paragraphs is applied to.      *)
(***************************************************************************)
\* the i-th regular node: a block element with one non-empty text, the tag
\* and the surrounding whitespace varying with the position
RegularNode(i) ==
    CASE i % 3 = 0 -> [tag |-> "p", strings |-> << <<"w" \o ToString(i)>> >>]
      [] i % 3 = 1 -> [tag |-> "li",
                       strings |-> << <<" ", "w" \o ToString(i), "\n">> >>]
      [] OTHER     -> [tag |-> "blockquote",
                       strings |-> << <<"q">>, <<" ">>, <<"w" \o ToString(i)>> >>]

\* the elements chosen freely: empty and whitespace-only blocks, an element
\* find_all does not select, and blocks with text
FreeNodes ==
    { [tag |-> "p", strings |-> <<>>],
      [tag |-> "li", strings |-> << <<" ", "\n">>, <<>> >>],
      [tag |-> "div", strings |-> << <<"d">> >>],
      [tag |-> "p", strings |-> << <<"a", " ", "<", "b">>, <<" ", "c", " ">> >>],
      [tag |-> "blockquote", strings |-> << ReadRestText >>] }

RegularRun(n) == [i \in 1..n |-> RegularNode(i)]

SeqsUpTo(S, n) == UNION {[1..k -> S] : k \in 0..n}

Documents ==
    { pre \o RegularRun(n) \o post :
        pre \in SeqsUpTo(FreeNodes, MaxPrefix),
        n \in 0..MaxNodes,
        post \in SeqsUpTo(FreeNodes, 1) }

FallbackTexts ==
    { None, Some(<<>>), Some(<<"hello">>), Some(ReadRestText) }

(***************************************************************************)
(* JSON values. An object is a function from its keys; what dict.get       *)
(* returns is optional: None for null, Some(v) for a value.                *)
(***************************************************************************)
\* d.get(key, default)
Get(d, key, default) == IF key \in DOMAIN d THEN d[key] ELSE default

\* the order sort_keys=True gives the keys of the state object
StateKeys == <<"latest_ids", "updated_at">>

\* json.dump(obj, indent=2, sort_keys=True): the members in key order (the
\* state objects of the model have no keys but these two)
json_dump(obj) ==
    LET present == SelectSeq(StateKeys, LAMBDA k : k \in DOMAIN obj)
    IN  [i \in 1..Len(present) |-> <<present[i], obj[present[i]]>>]

\* json.load of what json_dump wrote
json_load(members) ==
    [k \in {members[i][1] : i \in 1..Len(members)} |->
        (CHOOSE m \in Range(members) : m[1] = k)[2]]

\* the contents of a file: absent, or its text. The text of the state file
\* is a JSON object's members, or not JSON at all (an empty file included).
Missing == [kind |-> "missing"]
Truncated == [kind |-> "empty"]
NotJson == [kind |-> "garbage"]
JsonFile(members) == [kind |-> "json", members |-> members]

(***************************************************************************)
(* The API server: what GET /articles and GET /articles/{id} answer.       *)
(***************************************************************************)
Ids == 1..MaxId

\* the longest list GET /articles answers with
MaxTop == MaxId - 1

\* the identifier lists of the top articles: none, a run of MaxTop - 1 or
\* MaxTop consecutive identifiers, or a run of MaxTop in descending order
TopIdLists ==
    { l \in { [i \in 1..n |-> a + i - 1] : a \in Ids, n \in {0, MaxTop - 1, MaxTop} }
            \cup { [i \in 1..MaxTop |-> a - i + 1] : a \in Ids } :
        \A i \in 1..Len(l) : l[i] \in Ids }

\* some articles come without a description
Summary(id) ==
    IF id % 2 = 0
    THEN [id |-> id, description |-> Some(<<"about", " ", ToString(id)>>)]
    ELSE [id |-> id]

TopPayloads == { [i \in 1..Len(l) |-> Summary(l[i])] : l \in TopIdLists }

\* article id has a body of id - 1 block nodes
Detail(id) ==
    [id |-> id, body_html |-> RegularRun(id - 1),
     title |-> Some(<<"T", ToString(id)>>),
     url |-> Some(<<"https://dev.to/a/", ToString(id)>>),
     published_at |-> Some(<<"2024-01-0" \o ToString(id), "T", "00:00:00", "Z">>)]

\* the status codes the server answers with
Statuses == {200, 404, 429, 503}

\* the Retry-After header of a 429 answer: absent, or its characters
RetryAfterHeaders == { None, Some(<<"2">>), Some(<<"W", "e", "d">>) }

(***************************************************************************)
(* fetch_json                                                              *)
(***************************************************************************)
\* the default of the retries parameter
Retries == 3

\* the status the loop retries on
TooManyRequests == 429

\* raise_for_status raising for the 5xx statuses only
raise_for_status_ServerErrorsOnly(status) == status >= 500 /\ status < 600

\* Response.raise_for_status(): raises for a 4xx or 5xx status
raise_for_status(status) == status >= 400 /\ status < 600

Digits == {"0", "1", "2", "3", "4", "5", "6", "7", "8", "9"}

\* str.isdigit(): non-empty and digits only
isdigit(chars) == chars # <<>> /\ \A i \in 1..Len(chars) : chars[i] \in Digits

DigitValue(c) ==
    CASE c = "0" -> 0 [] c = "1" -> 1 [] c = "2" -> 2 [] c = "3" -> 3
      [] c = "4" -> 4 [] c = "5" -> 5 [] c = "6" -> 6 [] c = "7" -> 7
      [] c = "8" -> 8 [] c = "9" -> 9

\* int(chars) of a string of digits
RECURSIVE int(_)
int(chars) ==
    IF chars = <<>> THEN 0
    ELSE 10 * int(SubSeq(chars, 1, Len(chars) - 1)) + DigitValue(chars[Len(chars)])

\* the header ignored
Delay_IgnoresHeader(retry_after, att) == 2 ^ att

\* the delay before the jitter: Retry-After if it is a number, else
\* 2 ** attempt
Delay(retry_after, att) ==
    IF retry_after # None /\ retry_after[1] # <<>> /\ isdigit(retry_after[1])
    THEN int(retry_after[1])
    ELSE 2 ^ att

\* time.sleep takes seconds as a float; the model counts thousandths
Thousandths == 1000

\* jitter = random.uniform(0, 1): a + (b - a) * random.random() with
\* random() in [0, 1); the least and the greatest value, in
\* thousandths
Jitters == {0, Thousandths - 1}

\* delay and jitter are locals of the loop body: they are gone when the
\* call returns or raises
ForgetDelay == last_delay' = None /\ last_wait' = None

\* the loop running once more: range(retries + 2)
InLoop_OneMore(att) == att <= Retries + 1

\* for attempt in range(retries + 1)
InLoop(att) == att <= Retries

LoopMode == daemon \/ serve

\* the exception caught inside the loop: the loop goes on to its sleep
Raise_CaughtInLoop(exception) ==
    /\ pc' = IF LoopMode THEN "sleep" ELSE "raised"
    /\ exit_kind' = exception

\* an exception is raised and propagates out of refresh()
Raise(exception) ==
    /\ pc' = "raised"
    /\ exit_kind' = exception

\* fetch_json(session, url): the call starts
StartFetch(target) ==
    /\ f_target' = target
    /\ attempt' = 0
    /\ last_response' = None
    /\ f_result' = <<>>
    /\ gets' = 0
    /\ statuses' = <<>>
    /\ sleeps' = 0
    /\ last_delay' = None
    /\ last_wait' = None

\* the JSON bodies the server can answer the current URL with
Payloads ==
    IF f_target = "top" THEN TopPayloads
    ELSE {Detail(top_articles[idx]["id"])}

\* one iteration: the GET is answered with a status other than 429 that
\* raise_for_status accepts, and the call returns response.json()
FetchReturn ==
    /\ pc = "fetch"
    /\ InLoop(attempt)
    /\ \E status \in Statuses, json \in Payloads :
        /\ status # TooManyRequests
        /\ ~raise_for_status(status)
        /\ last_response' =
              Some([status |-> status, retry_after |-> None, json |-> json])
        /\ statuses' = Append(statuses, status)
    /\ f_result' = last_response'[1].json
    /\ gets' = gets + 1
    /\ pc' = "fetched"
    /\ ForgetDelay
    /\ UNCHANGED <<f_target, attempt, sleeps>>
    /\ UNCHANGED <<varsApart, varsConfig, server, exit_kind, varsCollect,
                   varsFiles, varsRefresh, varsHistory>>

\* one iteration: the GET is answered with an error status other than 429,
\* and raise_for_status raises
FetchFail ==
    /\ pc = "fetch"
    /\ InLoop(attempt)
    /\ \E status \in Statuses :
        /\ status # TooManyRequests
        /\ raise_for_status(status)
        /\ last_response' =
              Some([status |-> status, retry_after |-> None, json |-> <<>>])
        /\ statuses' = Append(statuses, status)
    /\ gets' = gets + 1
    /\ Raise("HTTPError")
    /\ ForgetDelay
    /\ UNCHANGED <<f_target, attempt, f_result, sleeps>>
    /\ UNCHANGED <<varsApart, varsConfig, server, varsCollect, varsFiles,
                   varsRefresh, varsHistory>>

\* one iteration: session.get itself raises (no connection, timeout)
FetchNoResponse ==
    /\ pc = "fetch"
    /\ InLoop(attempt)
    /\ gets' = gets + 1
    /\ Raise("RequestException")
    /\ ForgetDelay
    /\ UNCHANGED <<f_target, attempt, last_response, f_result, statuses, sleeps>>
    /\ UNCHANGED <<varsApart, varsConfig, server, varsCollect, varsFiles,
                   varsRefresh, varsHistory>>

\* one iteration: the GET is answered with 429, the call sleeps and goes on
\* with the next attempt
FetchRetry ==
    /\ pc = "fetch"
    /\ InLoop(attempt)
    /\ \E retry_after \in RetryAfterHeaders :
        /\ last_response' =
              Some([status |-> TooManyRequests, retry_after |-> retry_after,
                    json |-> <<>>])
        /\ last_delay' = Some(Delay(retry_after, attempt))
        /\ \E jitter \in Jitters :
            last_wait' = Some(Thousandths * Delay(retry_after, attempt) + jitter)
    /\ statuses' = Append(statuses, TooManyRequests)
    /\ gets' = gets + 1
    /\ sleeps' = sleeps + 1
    /\ attempt' = attempt + 1
    /\ UNCHANGED <<f_target, f_result>>
    /\ UNCHANGED <<varsApart, varsConfig, pc, server, exit_kind, varsCollect,
                   varsFiles, varsRefresh, varsHistory>>

\* after the loop: last_response.raise_for_status(), or the RuntimeError
FetchExhausted ==
    /\ pc = "fetch"
    /\ ~InLoop(attempt)
    /\ IF last_response # None /\ raise_for_status(last_response[1].status)
       THEN Raise("HTTPError")
       ELSE Raise("RuntimeError")
    /\ ForgetDelay
    /\ UNCHANGED <<f_target, attempt, last_response, f_result, gets, statuses, sleeps>>
    /\ UNCHANGED <<varsApart, varsConfig, server, varsCollect, varsFiles,
                   varsRefresh, varsHistory>>

(***************************************************************************)
(* paragraphs_to_html and the item of collect_items                        *)
(***************************************************************************)
\* the character left as it is
EscapeToken_Raw(c) == c

\* html.escape of one character (quote=True)
EscapeToken(c) ==
    CASE c = "&" -> "&amp;"
      [] c = "<" -> "&lt;"
      [] c = ">" -> "&gt;"
      [] c = "\"" -> "&quot;"
      [] c = "'" -> "&#x27;"
      [] OTHER -> c

\* the text left as it is
html_escape_Identity(text) == text

\* html.escape(text)
html_escape(text) == [i \in 1..Len(text) |-> EscapeToken(text[i])]

\* "".join(f"<p>{html.escape(text)}</p>" for text in paragraphs)
RECURSIVE paragraphs_to_html(_)
paragraphs_to_html(ps) ==
    IF ps = <<>> THEN <<>>
    ELSE <<"<p>">> \o html_escape(Head(ps)) \o <<"</p>">>
            \o paragraphs_to_html(Tail(ps))

\* Python's truth value of an optional string
Truthy(opt) == opt # None /\ opt[1] # <<>>

\* a or b
Or(a, b) == IF Truthy(a) THEN a ELSE b

\* format_datetime(datetime): the RFC 2822 form of a timestamp
format_datetime(timestamp) == <<"rfc2822", " ">> \o timestamp

\* datetime.now(timezone.utc) during the given cycle
Now(c) == <<"now", ToString(c)>>

\* published = detail.get("published_at") or detail.get("created_at")
Published(detail) ==
    Or(Get(detail, "published_at", None), Get(detail, "created_at", None))

\* published.replace("Z", "+00:00")
replace_Z(timestamp) ==
    [i \in 1..Len(timestamp) |->
        IF timestamp[i] = "Z" THEN "+00:00" ELSE timestamp[i]]

\* the dates, times and offsets of ISO 8601 among the tokens of the model
IsoDates == {"2024-01-0" \o ToString(i) : i \in 1..9}
IsoTimes == {"00:00:00", "12:30:00"}
IsoOffsets == {"+00:00"}

\* datetime.fromisoformat raises ValueError unless the string is a date, a
\* date and a time, or a date, a time and an offset
fromisoformat_raises(timestamp) ==
    ~ \/ Len(timestamp) = 1 /\ timestamp[1] \in IsoDates
      \/ /\ Len(timestamp) \in {3, 4}
         /\ timestamp[1] \in IsoDates
         /\ timestamp[2] = "T"
         /\ timestamp[3] \in IsoTimes
         /\ Len(timestamp) = 4 => timestamp[4] \in IsoOffsets

\* published and pub_date of collect_items
PubDate(detail, now) ==
    IF Truthy(Published(detail))
    THEN format_datetime(replace_Z(Published(detail)[1]))
    ELSE format_datetime(now)

\* the loop body raises: fromisoformat rejects the timestamp
ItemRaises(detail) ==
    Truthy(Published(detail)) /\ fromisoformat_raises(replace_Z(Published(detail)[1]))

\* the dict appended to items
Item(article, detail, now) ==
    [id |-> article["id"],
     title |-> Get(detail, "title", Get(article, "title", Some(<<"Untitled">>))),
     link |-> Get(detail, "url", Get(article, "url", None)),
     pub_date |-> PubDate(detail, now),
     content |-> paragraphs_to_html(
                    extract_paragraphs(Get(detail, "body_html", <<>>),
                                       Get(article, "description", None)))]

(***************************************************************************)
(* build_rss.  A document is a sequence of tokens: the tags and the other  *)
(* markup the code writes are one token each, and in the texts each of the *)
(* characters < > & " ' ] is a token of its own.                           *)
(***************************************************************************)
FEED_TITLE == <<"DEV.to", " ", "Top", " ", "Posts", " ", "This", " ", "Month">>
FEED_LINK == <<"https://dev.to/top/month">>
FEED_DESCRIPTION ==
    <<"Top", " ", "DEV.to", " ", "posts", " ", "from", " ", "the", " ", "last",
      " ", "30", " ", "days.">>

XmlDecl == "<?xml version=\"1.0\" encoding=\"UTF-8\"?>"
RssOpen ==
    "<rss version=\"2.0\" xmlns:content=\"http://purl.org/rss/1.0/modules/content/\">"
GuidOpen == "<guid isPermaLink=\"true\">"
CdataOpen == "<![CDATA["
CdataClose == "]]>"

\* html.escape of a str; of None it raises AttributeError
escape_raises(opt) == opt = None

\* the lines build_rss appends for one item
ItemLines(item) ==
    << <<"    ", "<item>">>,
       <<"      ", "<title>">> \o html_escape(item.title[1]) \o <<"</title>">>,
       <<"      ", "<link>">> \o html_escape(item.link[1]) \o <<"</link>">>,
       <<"      ", GuidOpen>> \o html_escape(item.link[1]) \o <<"</guid>">>,
       <<"      ", "<pubDate>">> \o item.pub_date \o <<"</pubDate>">>,
       <<"      ", "<description>", CdataOpen>> \o item.content
            \o <<CdataClose, "</description>">>,
       <<"      ", "<content:encoded>", CdataOpen>> \o item.content
            \o <<CdataClose, "</content:encoded>">>,
       <<"    ", "</item>">> >>

RECURSIVE AllItemLines(_)
AllItemLines(its) ==
    IF its = <<>> THEN <<>> ELSE ItemLines(Head(its)) \o AllItemLines(Tail(its))

\* build_rss raises: an item without a title or a link
build_rss_raises(its) ==
    \E i \in 1..Len(its) : escape_raises(its[i].title) \/ escape_raises(its[i].link)

\* "\n".join(channel_parts)
build_rss(its, now) ==
    join(<<"\n">>,
         << <<XmlDecl>>,
            <<RssOpen>>,
            <<"  ", "<channel>">>,
            <<"    ", "<title>">> \o html_escape(FEED_TITLE) \o <<"</title>">>,
            <<"    ", "<link>">> \o html_escape(FEED_LINK) \o <<"</link>">>,
            <<"    ", "<description>">> \o html_escape(FEED_DESCRIPTION)
                \o <<"</description>">>,
            <<"    ", "<lastBuildDate>">> \o format_datetime(now)
                \o <<"</lastBuildDate>">> >>
         \o AllItemLines(its)
         \o << <<"  ", "</channel>">>, <<"</rss>">> >>)

\* the whole list, whatever the limit
Slice_NoLimit(s, n) == s

\* top_articles[:limit]
Slice(s, n) == SubSeq(s, 1, Min(n, Len(s)))

(***************************************************************************)
(* collect_items                                                           *)
(***************************************************************************)
\* CollectTop with the feed file opened for writing before the articles are
\* looked at
CollectTop_OpensFeedFirst ==
    /\ pc = "fetched"
    /\ f_target = "top"
    /\ top_articles' = f_result
    /\ feed_file' = Truncated
    /\ IF f_result = <<>>
       THEN /\ Raise("RuntimeError")
            /\ UNCHANGED <<varsFetch, idx, items>>
       ELSE /\ items' = <<>>
            /\ idx' = 1
            /\ StartFetch("detail")
            /\ pc' = "fetch"
            /\ UNCHANGED exit_kind
    /\ UNCHANGED <<varsApart, varsConfig, server, state_file, varsRefresh,
                   varsHistory>>

\* the top articles are back: none is an error, else the loop starts with
\* the fetch of the first article's detail
CollectTop ==
    /\ pc = "fetched"
    /\ f_target = "top"
    /\ top_articles' = f_result
    /\ IF f_result = <<>>
       THEN /\ Raise("RuntimeError")
            /\ UNCHANGED <<varsFetch, idx, items>>
       ELSE /\ items' = <<>>
            /\ idx' = 1
            /\ StartFetch("detail")
            /\ pc' = "fetch"
            /\ UNCHANGED exit_kind
    /\ UNCHANGED <<varsApart, varsConfig, server, varsFiles, varsRefresh,
                   varsHistory>>

\* CollectDetail with refresh going on to the state before the feed is written
CollectDetail_StateFirst ==
    /\ pc = "fetched"
    /\ f_target = "detail"
    /\ IF ItemRaises(f_result)
       THEN /\ Raise("ValueError")
            /\ UNCHANGED <<varsFetch, idx, items>>
       ELSE /\ items' = Append(items, Item(top_articles[idx], f_result, Now(cycle)))
            /\ IF idx < Len(Slice(top_articles, limit))
               THEN /\ idx' = idx + 1
                    /\ StartFetch("detail")
                    /\ pc' = "fetch"
               ELSE /\ pc' = "load_state"
                    /\ UNCHANGED <<varsFetch, idx>>
            /\ UNCHANGED exit_kind
    /\ UNCHANGED <<varsApart, varsConfig, server, top_articles, varsFiles,
                   varsRefresh, varsHistory>>

\* an article's detail is back: its item is appended, and the loop goes on
\* with the next article or collect_items returns
CollectDetail ==
    /\ pc = "fetched"
    /\ f_target = "detail"
    /\ IF ItemRaises(f_result)
       THEN /\ Raise("ValueError")
            /\ UNCHANGED <<varsFetch, idx, items>>
       ELSE /\ items' = Append(items, Item(top_articles[idx], f_result, Now(cycle)))
            /\ IF idx < Len(Slice(top_articles, limit))
               THEN /\ idx' = idx + 1
                    /\ StartFetch("detail")
                    /\ pc' = "fetch"
               ELSE /\ pc' = "write_feed"
                    /\ UNCHANGED <<varsFetch, idx>>
            /\ UNCHANGED exit_kind
    /\ UNCHANGED <<varsApart, varsConfig, server, top_articles, varsFiles,
                   varsRefresh, varsHistory>>

(***************************************************************************)
(* write_feed, load_state, save_state and refresh                          *)
(***************************************************************************)
\* the feed document of a list of items
FeedDoc(its) == [kind |-> "rss", items |-> its]

\* write_feed: open(output_path, "w") truncates the file
WriteFeedOpen ==
    /\ pc = "write_feed"
    /\ feed_file' = Truncated
    /\ pc' = "write_feed_data"
    /\ UNCHANGED <<varsApart, varsConfig, server, exit_kind, varsFetch,
                   varsCollect, state_file, varsRefresh, varsHistory>>

\* write_feed: handle.write(rss) and the close of the file
WriteFeedData ==
    /\ pc = "write_feed_data"
    /\ feed_file' = FeedDoc(items)
    /\ pc' = "load_state"
    /\ UNCHANGED <<varsApart, varsConfig, server, exit_kind, varsFetch,
                   varsCollect, state_file, varsRefresh, varsHistory>>

\* [item["id"] for item in items]
IdsOf(its) == [i \in 1..Len(its) |-> its[i]["id"]]

\* NewIds with the test inverted: the identifiers seen before
NewIds_SeenBefore(current_ids, prev_ids) ==
    SelectSeq(current_ids, LAMBDA id : id \in prev_ids)

\* current_ids without the members of previous_ids, in order
NewIds(current_ids, prev_ids) ==
    SelectSeq(current_ids, LAMBDA id : id \notin prev_ids)

\* load_state without its except clause: a missing file raises as well
load_state_raises_WhenMissing(file) == file.kind \in {"empty", "garbage", "missing"}

\* load_state raises what json.load raises; FileNotFoundError is caught
load_state_raises(file) == file.kind \in {"empty", "garbage"}

\* load_state: a missing file is the empty state
load_state(file) ==
    IF file.kind = "missing" THEN <<>> ELSE json_load(file.members)

\* previous_ids = set(state.get("latest_ids", []))
previous_ids(st) == Range(Get(st, "latest_ids", <<>>))

\* load_state and the computation of new_ids
LoadState ==
    /\ pc = "load_state"
    /\ IF load_state_raises(state_file)
       THEN /\ Raise("JSONDecodeError")
            /\ UNCHANGED <<state, new_ids>>
       ELSE /\ state' = load_state(state_file)
            /\ new_ids' = NewIds(IdsOf(items), previous_ids(state'))
            /\ pc' = "save_state"
            /\ UNCHANGED exit_kind
    /\ UNCHANGED <<varsApart, varsConfig, server, varsFetch, varsCollect,
                   varsFiles, count, varsHistory>>

\* UpdatedState keeping the identifiers already in the state (a merge)
UpdatedState_Merges(st, current_ids, now) ==
    [k \in DOMAIN st \cup {"latest_ids", "updated_at"} |->
        IF k = "latest_ids"
        THEN Get(st, "latest_ids", <<>>)
                \o SelectSeq(current_ids,
                             LAMBDA id : id \notin Range(Get(st, "latest_ids", <<>>)))
        ELSE IF k = "updated_at" THEN now
        ELSE st[k]]

\* state["latest_ids"] = ..., state["updated_at"] = ...
UpdatedState(st, current_ids, now) ==
    [k \in DOMAIN st \cup {"latest_ids", "updated_at"} |->
        IF k = "latest_ids" THEN current_ids
        ELSE IF k = "updated_at" THEN now
        ELSE st[k]]

\* the two assignments to state, and save_state: open(path, "w") truncates
\* the file
SaveStateOpen ==
    /\ pc = "save_state"
    /\ state' = UpdatedState(state, IdsOf(items), Now(cycle))
    /\ state_file' = Truncated
    /\ pc' = "save_state_data"
    /\ UNCHANGED <<varsApart, varsConfig, server, exit_kind, varsFetch,
                   varsCollect, feed_file, new_ids, count, varsHistory>>

\* save_state: json.dump and the close of the file
SaveStateData ==
    /\ pc = "save_state_data"
    /\ state_file' = JsonFile(json_dump(state))
    /\ persisted' = Append(persisted, state["latest_ids"])
    /\ pc' = "report"
    /\ UNCHANGED <<varsApart, varsConfig, server, exit_kind, varsFetch,
                   varsCollect, feed_file, varsRefresh, cycle, feed_at_start,
                   state_at_start>>

\* the print of the number of new articles and return len(items); the
\* one-shot run prints the count and main returns 0
Report ==
    /\ pc = "report"
    /\ count' = Len(items)
    /\ IF LoopMode
       THEN pc' = "sleep" /\ UNCHANGED exit_kind
       ELSE pc' = "exit" /\ exit_kind' = "ok"
    /\ UNCHANGED <<varsApart, varsConfig, server, varsFetch, varsCollect,
                   varsFiles, state, new_ids, varsHistory>>

(***************************************************************************)
(* main                                                                    *)
(***************************************************************************)
\* the last n entries of a sequence
LastN(s, n) == SubSeq(s, Len(s) - Min(n, Len(s)) + 1, Len(s))

\* after the argument checks: start_server if --serve
MainStart ==
    /\ pc = "main"
    /\ server' = IF serve THEN "running" ELSE "none"
    /\ pc' = "refresh"
    /\ UNCHANGED <<varsApart, varsConfig, exit_kind, varsFetch, varsCollect,
                   varsFiles, varsRefresh, varsHistory>>

\* refresh() is called: collect_items starts with the fetch of the top
\* articles
RefreshStart ==
    /\ pc = "refresh"
    /\ cycle < MaxCycles
    /\ cycle' = cycle + 1
    /\ feed_at_start' = feed_file
    /\ state_at_start' = state_file
    /\ persisted' = LastN(persisted, 2)
    /\ top_articles' = <<>>
    /\ idx' = 0
    /\ items' = <<>>
    /\ state' = <<>>
    /\ new_ids' = <<>>
    /\ count' = 0
    /\ StartFetch("top")
    /\ pc' = "fetch"
    /\ UNCHANGED <<varsApart, varsConfig, server, exit_kind, varsFiles>>

\* time.sleep(sleep_for) of the loop
Sleep ==
    /\ pc = "sleep"
    /\ pc' = "refresh"
    /\ UNCHANGED <<varsApart, varsConfig, server, exit_kind, varsFetch,
                   varsCollect, varsFiles, varsRefresh, varsHistory>>

\* Ctrl+C while refresh() runs or the loop sleeps
Interrupt ==
    /\ pc \notin {"main", "raised", "exit"}
    /\ Raise("KeyboardInterrupt")
    /\ UNCHANGED <<varsApart, varsConfig, server, varsFetch, varsCollect,
                   varsFiles, varsRefresh, varsHistory>>

\* the finally clause left out
AfterFinally_NoShutdown(srv) == srv

\* finally: if server: server.shutdown(), around the loop only
AfterFinally(srv) == IF LoopMode /\ srv = "running" THEN "stopped" ELSE srv

\* the exception leaves main: in the loop through finally (if server:
\* server.shutdown()), and the process ends with its frames gone
Finally ==
    /\ pc = "raised"
    /\ server' = AfterFinally(server)
    /\ pc' = "exit"
    /\ StartFetch("none")
    /\ top_articles' = <<>>
    /\ idx' = 0
    /\ items' = <<>>
    /\ state' = <<>>
    /\ new_ids' = <<>>
    /\ count' = 0
    /\ UNCHANGED <<varsApart, varsConfig, exit_kind, varsFiles, varsHistory>>

(***************************************************************************)
(* The runs of main.                                                       *)
(***************************************************************************)
\* --limit
Limits == {MaxTop - 1, MaxTop}

\* the state file main finds: none, one that is not JSON, an object without
\* latest_ids, or what an earlier run saved
EarlierState(l) == JsonFile(json_dump([latest_ids |-> l, updated_at |-> Now(0)]))

InitialStateFiles ==
    {Missing, NotJson, JsonFile(<<>>)} \cup {EarlierState(l) : l \in TopIdLists}

IdleApart ==
    /\ body_html = <<>>
    /\ fallback_text = None
    /\ paragraphs = <<>>
    /\ xpc = "idle"
    /\ n_article = <<>>
    /\ n_detail = <<>>
    /\ n_item = <<>>
    /\ r_items = <<>>
    /\ rss = <<>>
    /\ served = None

IdleCycle ==
    /\ serve = FALSE
    /\ daemon = FALSE
    /\ limit = 1
    /\ pc = "idle"
    /\ server = "none"
    /\ exit_kind = "running"
    /\ f_target = "none"
    /\ attempt = 0
    /\ last_response = None
    /\ f_result = <<>>
    /\ gets = 0
    /\ statuses = <<>>
    /\ sleeps = 0
    /\ last_delay = None
    /\ last_wait = None
    /\ top_articles = <<>>
    /\ idx = 0
    /\ items = <<>>
    /\ feed_file = Missing
    /\ state_file = Missing
    /\ state = <<>>
    /\ new_ids = <<>>
    /\ count = 0
    /\ cycle = 0
    /\ feed_at_start = Missing
    /\ state_at_start = Missing
    /\ persisted = <<>>

Init ==
    /\ IdleApart
    /\ serve \in BOOLEAN
    /\ daemon \in BOOLEAN
    /\ limit \in Limits
    /\ pc = "main"
    /\ server = "none"
    /\ exit_kind = "running"
    /\ f_target = "none"
    /\ attempt = 0
    /\ last_response = None
    /\ f_result = <<>>
    /\ gets = 0
    /\ statuses = <<>>
    /\ sleeps = 0
    /\ last_delay = None
    /\ last_wait = None
    /\ top_articles = <<>>
    /\ idx = 0
    /\ items = <<>>
    /\ feed_file = Missing
    /\ state_file \in InitialStateFiles
    /\ state = <<>>
    /\ new_ids = <<>>
    /\ count = 0
    /\ cycle = 0
    /\ feed_at_start = feed_file
    /\ state_at_start = state_file
    /\ persisted = IF state_file.kind = "json" /\ state_file.members # <<>>
                   THEN <<json_load(state_file.members)["latest_ids"]>>
                   ELSE <<>>

Next ==
    \/ MainStart
    \/ RefreshStart
    \/ FetchReturn
    \/ FetchFail
    \/ FetchNoResponse
    \/ FetchRetry
    \/ FetchExhausted
    \/ CollectTop
    \/ CollectDetail
    \/ WriteFeedOpen
    \/ WriteFeedData
    \/ LoadState
    \/ SaveStateOpen
    \/ SaveStateData
    \/ Report
    \/ Sleep
    \/ Interrupt
    \/ Finally

Spec == Init /\ [][Next]_vars

(***************************************************************************)
(* The run of main with --serve beside the responder thread, which reads   *)
(* the feed file whenever a request for it arrives.                        *)
(***************************************************************************)
\* SimpleHTTPRequestHandler answering a GET of the feed: it opens the file
\* and sends what it holds at that moment (404 when there is no file)
ServeRead ==
    /\ server = "running"
    /\ served' = Some(feed_file)
    /\ UNCHANGED <<body_html, fallback_text, paragraphs, xpc, n_article, n_detail,
                   n_item, r_items, rss>>
    /\ UNCHANGED varsCycle

InitServe ==
    /\ Init
    /\ serve
    /\ ~daemon
    /\ limit = MaxTop
    /\ state_file = Missing

NextServe == Next \/ ServeRead

SpecServe == InitServe /\ [][NextServe]_vars

\* C14: a read of the feed file by the responder, at any moment of the run,
\* observes a complete feed document (or, before the first feed is written,
\* no file): never an empty or partially written file.
C14_ReadsCompleteFeed ==
    served # None => served[1].kind \in {"rss", "missing"}

(***************************************************************************)
(* Properties of fetch_json (checked under Spec).                          *)
(***************************************************************************)
All429(codes) == \A i \in 1..Len(codes) : codes[i] = 429

LastOf(codes) == codes[Len(codes)]

\* C1: a call issues at most 4 GETs; after four 429 answers it does not
\* return, it raises the HTTP error of the last response; and a success
\* status as the first answer other than 429 makes it return that
\* response's JSON with no further GET.
C1_BoundedAttempts ==
    /\ gets <= 4
    /\ (Len(statuses) = 4 /\ All429(statuses)) =>
            /\ pc \in {"fetch", "raised"}
            /\ last_response[1].status = 429
            /\ pc = "raised" => exit_kind \in {"HTTPError", "KeyboardInterrupt"}
    /\ (statuses # <<>> /\ LastOf(statuses) < 400) =>
            /\ pc # "fetch"
            /\ Len(statuses) <= 4
            /\ gets = Len(statuses)
            /\ All429(SubSeq(statuses, 1, Len(statuses) - 1))
            /\ f_result = last_response[1].json

\* four 429 answers, and the HTTP error raised
C1_Witness ==
    /\ pc = "raised"
    /\ exit_kind = "HTTPError"
    /\ statuses = <<429, 429, 429, 429>>
    /\ gets = 4

\* a success on the fourth attempt
C1_WitnessReturn ==
    /\ pc = "fetched"
    /\ statuses = <<429, 429, 429, 200>>
    /\ f_target = "detail"
    /\ f_result = Detail(top_articles[idx]["id"])

\* C8: an error status other than 429 ends the call at once, on whatever
\* attempt it comes: the call raises the HTTP error, with no sleep and no GET
\* after that response.
C8_ErrorRaisesAtOnce ==
    (statuses # <<>> /\ LastOf(statuses) \in (400..599) \ {429}) =>
        /\ pc = "raised"
        /\ exit_kind = "HTTPError"
        /\ gets = Len(statuses)
        /\ All429(SubSeq(statuses, 1, Len(statuses) - 1))
        /\ sleeps = Len(statuses) - 1

\* a 404 on the third attempt of a detail fetch
C8_Witness ==
    /\ pc = "raised"
    /\ f_target = "detail"
    /\ statuses = <<429, 429, 404>>
    /\ sleeps = 2

(***************************************************************************)
(* Properties of the refresh cycle (checked under Spec).                   *)
(***************************************************************************)
\* the exceptions that leave collect_items
CollectErrors == {"HTTPError", "RequestException", "RuntimeError"}

\* the latest_ids of the state file
LatestIdsOnDisk == json_load(state_file.members)["latest_ids"]

\* the latest_ids the state file held when the current cycle loaded it
PersistedBefore ==
    IF Len(persisted) >= 2 THEN persisted[Len(persisted) - 1] ELSE <<>>

\* C2: a cycle that ends with an error of the top-articles fetch, of a detail
\* fetch or for want of articles leaves the feed file and the state file as
\* they were when the cycle started.
C2_FailedCollectWritesNothing ==
    exit_kind \in CollectErrors =>
        /\ feed_file = feed_at_start
        /\ state_file = state_at_start

\* the second cycle fails in a detail fetch after its first item, with the
\* feed and the state of the first cycle on disk
C2_Witness ==
    /\ pc = "raised"
    /\ exit_kind \in {"HTTPError", "RequestException"}
    /\ cycle = 2
    /\ f_target = "detail"
    /\ Len(items) >= 1
    /\ feed_file.kind = "rss"
    /\ state_file.kind = "json"

\* no articles in the second cycle
C2_WitnessNoArticles ==
    /\ pc = "raised"
    /\ exit_kind = "RuntimeError"
    /\ cycle = 2
    /\ top_articles = <<>>
    /\ feed_file.kind = "rss"

\* C3: the identifiers reported new are the identifiers of the cycle without
\* the latest_ids the preceding cycle saved; after <<1, 2, 3>> the cycle
\* <<2, 3, 4>> reports <<4>>.
C3_NewIsCurrentMinusPrevious ==
    pc = "report" =>
        /\ Range(new_ids) = Range(IdsOf(items)) \ Range(PersistedBefore)
        /\ (PersistedBefore = <<1, 2, 3>> /\ IdsOf(items) = <<2, 3, 4>>)
                => new_ids = <<4>>

\* the first cycle of the run saved <<1, 2, 3>>, the second has <<2, 3, 4>>
C3_Witness ==
    /\ pc = "report"
    /\ cycle = 2
    /\ PersistedBefore = <<1, 2, 3>>
    /\ IdsOf(items) = <<2, 3, 4>>
    /\ new_ids = <<4>>

\* C9: after a successful cycle the latest_ids on disk are the ordered
\* identifiers of that cycle, whatever was there before; an identifier of the
\* cycle before the last that the last cycle did not have is reported new.
C9_StateIsReplaced ==
    pc = "report" =>
        /\ state_file.kind = "json"
        /\ LatestIdsOnDisk = IdsOf(Slice(top_articles, limit))
        /\ LatestIdsOnDisk = IdsOf(items)
        /\ Len(persisted) >= 3 =>
                \A id \in Range(persisted[Len(persisted) - 2]) :
                    (id \notin Range(PersistedBefore) /\ id \in Range(IdsOf(items)))
                        => id \in Range(new_ids)

\* an identifier saved two cycles ago, dropped by the last cycle, is back and
\* new, and the list on disk has lost an identifier of the last cycle
C9_Witness ==
    /\ pc = "report"
    /\ cycle = 2
    /\ Len(persisted) >= 3
    /\ \E id \in Range(persisted[Len(persisted) - 2]) :
            /\ id \notin Range(PersistedBefore)
            /\ id \in Range(IdsOf(items))
            /\ id \in Range(new_ids)
    /\ \E id \in Range(PersistedBefore) : id \notin Range(LatestIdsOnDisk)

\* C10: a cycle that finds no state file takes the previous identifiers to be
\* none: it does not fail in load_state, it reports every identifier new and
\* it creates the state file with the identifiers of the cycle.
C10_MissingStateIsEmpty ==
    state_at_start = Missing =>
        /\ exit_kind \in CollectErrors \cup {"KeyboardInterrupt", "running", "ok"}
        /\ pc = "save_state" => state = <<>>
        /\ pc = "report" =>
                /\ new_ids = IdsOf(items)
                /\ state_file.kind = "json"
                /\ LatestIdsOnDisk = IdsOf(items)

\* the first cycle of a run without a state file
C10_Witness ==
    /\ pc = "report"
    /\ state_at_start = Missing
    /\ Len(items) >= 2
    /\ new_ids = IdsOf(items)
    /\ state_file.kind = "json"

\* C12: after each 429 the base delay is the Retry-After value when the
\* header is present and all digits, else 2^attempt (1, 2, 4, 8 for the
\* attempts 0..3), and the wait is the base delay plus a jitter in [0,1):
\* with Retry-After: 2 every wait is at least 2 and less than 3 seconds.
JustWaited == pc = "fetch" /\ attempt >= 1

Backoff(att) == CASE att = 0 -> 1 [] att = 1 -> 2 [] att = 2 -> 4 [] att = 3 -> 8

C12_WitnessRetryAfter ==
    /\ JustWaited
    /\ attempt = 3
    /\ last_response[1].retry_after = Some(<<"2">>)
    /\ last_wait = Some(2 * Thousandths)

\* C15: every wait of fetch_json is followed by another GET: a call never
\* waits more often than it retries (3 times), and a call that raises after
\* four 429 answers has waited exactly 3 times.
C15_WaitsOnlyBeforeRetry ==
    /\ sleeps <= Retries
    /\ (pc = "raised" /\ exit_kind = "HTTPError" /\ Len(statuses) = 4 /\ All429(statuses))
            => sleeps = 3

\* what does hold: the call waits after every 429 answer, the fourth as
\* well, so four 429 answers make four waits and the last wait is followed
\* by the raise
C15_WaitsAfterEvery429 ==
    /\ sleeps = Len(SelectSeq(statuses, LAMBDA code : code = TooManyRequests))
    /\ (pc = "raised" /\ exit_kind = "HTTPError" /\ Len(statuses) = 4 /\ All429(statuses))
            => sleeps = 4 /\ gets = 4

(***************************************************************************)
(* Properties of the loop of main (checked under Spec).                    *)
(***************************************************************************)
\* C16: in daemon/serve mode a failure of a refresh cycle ends the loop:
\* once a cycle has raised, no refresh cycle is started and no sleep of the
\* loop is performed.
C16_FailureEndsLoop ==
    [][(LoopMode /\ exit_kind # "running") => ~RefreshStart /\ ~Sleep /\ cycle' = cycle]_vars

\* main has ended on the HTTP error of the first cycle, in loop mode, with
\* cycles left to run
C16_Witness ==
    /\ LoopMode
    /\ pc = "exit"
    /\ exit_kind = "HTTPError"
    /\ cycle = 1
    /\ cycle < MaxCycles

\* the same on the state file's JSON error of the second cycle's load_state
C16_WitnessLoadState ==
    /\ daemon
    /\ pc = "exit"
    /\ exit_kind = "JSONDecodeError"
    /\ feed_file.kind = "rss"

\* C17: when the responder was started, server.shutdown has been called
\* whenever main has ended, however the loop ended; when it was not started,
\* shutdown is never called.
C17_ShutdownIffServing ==
    /\ pc = "exit" => server = (IF serve THEN "stopped" ELSE "none")
    /\ server = "stopped" => serve /\ pc = "exit"
    /\ pc \notin {"main", "exit"} => server = (IF serve THEN "running" ELSE "none")

\* Ctrl+C after the first cycle has written the feed and saved the state
\* (during the report or the sleep), the responder shut down
C17_Witness ==
    /\ serve
    /\ pc = "exit"
    /\ exit_kind = "KeyboardInterrupt"
    /\ server = "stopped"
    /\ cycle = 1
    /\ feed_file.kind = "rss"
    /\ state_file.kind = "json"
    /\ state_file # state_at_start

\* a cycle failure with the responder running, and one without a responder
C17_WitnessFailure ==
    /\ serve
    /\ pc = "exit"
    /\ exit_kind = "HTTPError"
    /\ server = "stopped"

C17_WitnessNoResponder ==
    /\ ~serve
    /\ daemon
    /\ pc = "exit"
    /\ exit_kind = "KeyboardInterrupt"
    /\ server = "none"

\* the steps of a cycle after collect_items
AfterCollect == {"write_feed", "write_feed_data", "load_state", "save_state",
                 "save_state_data", "report"}

C18_WitnessSaved ==
    /\ pc = "report"
    /\ feed_file = FeedDoc(items)
    /\ state_file.kind = "json"
    /\ state_file # state_at_start
    /\ LatestIdsOnDisk = IdsOf(items)

\* the identifiers of the first min(limit, number of summaries) summaries
ExpectedIds ==
    [i \in 1..Min(limit, Len(top_articles)) |-> top_articles[i]["id"]]

\* C19: a successful cycle produces min(limit, number of summaries) items in
\* the order of the summaries, with one detail fetch per item, the fetch for
\* the next item starting only when the item before is in the list; the count
\* the cycle returns is the number of items in the feed and the length of the
\* persisted latest_ids.
C19_OneItemPerSummary ==
    [][/\ (pc = "fetched" /\ pc' = "fetch") =>
            /\ f_target' = "detail"
            /\ idx' = idx + 1
            /\ Len(items') = idx
            /\ idx' <= Len(ExpectedIds')
       /\ (items' # items /\ items' # <<>>) =>
            /\ pc = "fetched" /\ f_target = "detail"
            /\ Len(items) = idx - 1
            /\ items' = Append(items, items'[idx])
            /\ items'[idx]["id"] = top_articles[idx]["id"]
            /\ items'[idx].title = f_result["title"]
       /\ (pc = "report" /\ pc' \in {"sleep", "exit"}) =>
            /\ count' = Len(ExpectedIds)
            /\ count' = Len(items)
            /\ idx = count'
            /\ IdsOf(items) = ExpectedIds
            /\ feed_file.items = items
            /\ Len(LatestIdsOnDisk) = count'
            /\ LatestIdsOnDisk = ExpectedIds
      ]_vars

\* a cycle has returned 2 for 3 summaries and --limit 2, in their
\* (descending) order
C19_Witness ==
    /\ pc = "sleep"
    /\ limit = 2
    /\ Len(top_articles) = 3
    /\ count = 2
    /\ IdsOf(items) = <<3, 2>>
    /\ LatestIdsOnDisk = <<3, 2>>

\* fewer summaries than the limit
C19_WitnessFewer ==
    /\ pc = "exit"
    /\ exit_kind = "ok"
    /\ limit = 3
    /\ Len(top_articles) = 2
    /\ count = 2

(***************************************************************************)
(* The body of the loop of collect_items on its own: one article summary   *)
(* and one article detail with every field absent, null, empty or given.   *)
(***************************************************************************)
\* what a JSON object can hold for a key: nothing (the key is absent), null,
\* the empty string, or a string
Absent == <<"absent">>
FieldStates(texts) == {Absent, <<"is", None>>, <<"is", Some(<<>>)>>}
                        \cup {<<"is", Some(t)>> : t \in texts}

\* the object with the keys that are not absent
Object(fields) ==
    [k \in {key \in DOMAIN fields : fields[key] # Absent} |-> fields[k][2]]

ArticleInputs ==
    { Object([title |-> t, url |-> u]) @@ [id |-> 1] :
        t \in FieldStates({<<"Summary", " ", "title">>}),
        u \in FieldStates({<<"https://dev.to/s">>}) }

DetailInputs ==
    { Object([title |-> t, url |-> u, published_at |-> p, created_at |-> c])
        @@ [body_html |-> RegularRun(2)] :
        t \in FieldStates({<<"Detail", " ", "<", "title", ">">>}),
        u \in FieldStates({<<"https://dev.to/d?a=1", "&", "b=2">>}),
        p \in FieldStates({<<"2024-01-02", "T", "00:00:00", "Z">>, <<"yesterday">>}),
        c \in FieldStates({<<"2024-01-01", "T", "12:30:00", "+00:00">>}) }

InitItem ==
    /\ IdleCycle
    /\ body_html = <<>>
    /\ fallback_text = None
    /\ paragraphs = <<>>
    /\ xpc = "item_call"
    /\ n_article \in ArticleInputs
    /\ n_detail \in DetailInputs
    /\ n_item = <<>>
    /\ r_items = <<>>
    /\ rss = <<>>
    /\ served = None

\* one pass through the body of the loop, after the detail fetch
BuildItem ==
    /\ xpc = "item_call"
    /\ IF ItemRaises(n_detail)
       THEN xpc' = "item_raised" /\ UNCHANGED n_item
       ELSE /\ n_item' = Item(n_article, n_detail, Now(1))
            /\ xpc' = "item_built"
    /\ UNCHANGED <<body_html, fallback_text, paragraphs, n_article, n_detail,
                   r_items, rss, served>>
    /\ UNCHANGED varsCycle

NextItem == BuildItem

SpecItem == InitItem /\ [][NextItem]_vars

\* C11: every item built has a non-empty title, link and pub_date, whatever
\* fields of the summary and the detail are absent, null or empty, and
\* building it never raises.
C11_ItemFieldsNonEmpty ==
    /\ xpc # "item_raised"
    /\ xpc = "item_built" =>
            /\ Truthy(n_item.title)
            /\ Truthy(n_item.link)
            /\ n_item.pub_date # <<>>

\* what does hold: the title is the detail's whenever the detail has the key
\* (null and empty included), the summary's likewise, else "Untitled"; the
\* link is None when neither object has a url; pub_date is never empty
C11_WhatTheCodeDoes ==
    xpc = "item_built" =>
        /\ n_item.title =
              IF "title" \in DOMAIN n_detail THEN n_detail["title"]
              ELSE IF "title" \in DOMAIN n_article THEN n_article["title"]
              ELSE Some(<<"Untitled">>)
        /\ n_item.link =
              IF "url" \in DOMAIN n_detail THEN n_detail["url"]
              ELSE IF "url" \in DOMAIN n_article THEN n_article["url"]
              ELSE None
        /\ n_item.pub_date # <<>>

(***************************************************************************)
(* build_rss on its own, applied to lists of items collect_items builds.   *)
(***************************************************************************)
MaxItems == 2

RenderTitles ==
    { <<"is", Some(<<"A", "<", "b", ">", " ", "&", " ", "\"", "c", "'">>)>>,
      <<"is", Some(<<"plain">>)>>,
      <<"is", Some(<<>>)>>,
      <<"is", None>> }

RenderUrls ==
    { <<"is", Some(<<"https://dev.to/d?a=1", "&", "b=2">>)>>,
      <<"is", Some(<<"https://dev.to/x">>)>> }

RenderBodies ==
    { <<>>,
      RegularRun(2),
      << [tag |-> "p", strings |-> << <<"x", "]", "]", ">", "y">> >>],
         [tag |-> "li", strings |-> << <<"<", "/p", ">", "&", "]">> >>] >> }

RenderItems ==
    { Item([id |-> 1, description |-> Some(<<"see", " ", "]", "]", ">", "&">>)],
           Object([title |-> t, url |-> u]) @@ [body_html |-> b],
           Now(1)) :
        t \in RenderTitles, u \in RenderUrls, b \in RenderBodies }

InitRender ==
    /\ IdleCycle
    /\ body_html = <<>>
    /\ fallback_text = None
    /\ paragraphs = <<>>
    /\ xpc = "render_call"
    /\ n_article = <<>>
    /\ n_detail = <<>>
    /\ n_item = <<>>
    /\ r_items \in SeqsUpTo(RenderItems, MaxItems)
    /\ rss = <<>>
    /\ served = None

\* rss = build_rss(items)
Render ==
    /\ xpc = "render_call"
    /\ IF build_rss_raises(r_items)
       THEN xpc' = "render_raised" /\ UNCHANGED rss
       ELSE xpc' = "rendered" /\ rss' = build_rss(r_items, Now(1))
    /\ UNCHANGED <<body_html, fallback_text, paragraphs, n_article, n_detail,
                   n_item, r_items, served>>
    /\ UNCHANGED varsCycle

NextRender == Render

SpecRender == InitRender /\ [][NextRender]_vars

\* Reading a document as an XML parser does.  The start and end tags:
StartTags ==
    [t \in {RssOpen, "<channel>", "<title>", "<link>", "<description>",
            "<lastBuildDate>", "<item>", GuidOpen, "<pubDate>",
            "<content:encoded>", "<p>"} |->
        CASE t = RssOpen -> "rss" [] t = "<channel>" -> "channel"
          [] t = "<title>" -> "title" [] t = "<link>" -> "link"
          [] t = "<description>" -> "description"
          [] t = "<lastBuildDate>" -> "lastBuildDate" [] t = "<item>" -> "item"
          [] t = GuidOpen -> "guid" [] t = "<pubDate>" -> "pubDate"
          [] t = "<content:encoded>" -> "content:encoded" [] t = "<p>" -> "p"]

EndTags ==
    [t \in {"</rss>", "</channel>", "</title>", "</link>", "</description>",
            "</lastBuildDate>", "</item>", "</guid>", "</pubDate>",
            "</content:encoded>", "</p>"} |->
        CASE t = "</rss>" -> "rss" [] t = "</channel>" -> "channel"
          [] t = "</title>" -> "title" [] t = "</link>" -> "link"
          [] t = "</description>" -> "description"
          [] t = "</lastBuildDate>" -> "lastBuildDate" [] t = "</item>" -> "item"
          [] t = "</guid>" -> "guid" [] t = "</pubDate>" -> "pubDate"
          [] t = "</content:encoded>" -> "content:encoded" [] t = "</p>" -> "p"]

\* the characters "]]>" start at position i: as one token or as three
CdataEndLen(doc, i) ==
    IF doc[i] = CdataClose THEN 1
    ELSE IF /\ i + 2 <= Len(doc)
            /\ doc[i] = "]" /\ doc[i + 1] = "]" /\ doc[i + 2] = ">"
         THEN 3
         ELSE 0

\* position i is inside a CDATA section: after the last "<![CDATA[" before
\* it, no "]]>" has started up to i
InCdata(doc, i, opens, ends) ==
    /\ \E j \in opens : j < i
    /\ LET last == CHOOSE j \in opens : j < i /\ \A o \in opens : o < i => o <= j
       IN  \A k \in ends : ~(last < k /\ k <= i)

\* what the parser sees at position i: <<"start", name>>, <<"end", name>>,
\* <<"raw", character>> for a '<', '>' or '&' (or a "]]>") that is neither
\* markup nor inside a CDATA section, <<"text">> for other character data
\* outside CDATA, and <<"none">> for CDATA content, the CDATA marks, the
\* XML declaration and the white space between the elements
EventAt(doc, i, opens, ends) ==
    IF InCdata(doc, i, opens, ends) THEN <<"none">>
    ELSE IF i \in ends /\ InCdata(doc, i - 1, opens, ends) THEN <<"none">>
    ELSE IF doc[i] \in {CdataOpen, XmlDecl, "\n", "  ", "    ", "      "} THEN <<"none">>
    ELSE IF doc[i] \in DOMAIN StartTags THEN <<"start", StartTags[doc[i]]>>
    ELSE IF doc[i] \in DOMAIN EndTags THEN <<"end", EndTags[doc[i]]>>
    ELSE IF doc[i] \in {"<", ">", "&", CdataClose} THEN <<"raw", doc[i]>>
    ELSE <<"text">>

\* the events of the document in order, a run of character data counted once;
\* a CDATA section still open at the end is an event as well
Events(doc) ==
    LET opens == {i \in 1..Len(doc) : doc[i] = CdataOpen}
        ends == {i \in 1..Len(doc) : CdataEndLen(doc, i) > 0}
        at == [i \in 1..Len(doc) |-> EventAt(doc, i, opens, ends)]
        once == [i \in 1..Len(doc) |->
                    IF i > 1 /\ at[i] = <<"text">> /\ at[i - 1] = <<"text">>
                    THEN <<"none">> ELSE at[i]]
    IN  SelectSeq(once, LAMBDA e : e # <<"none">>)
            \o (IF doc # <<>> /\ InCdata(doc, Len(doc) + 1, opens, ends)
                THEN << <<"unclosed">> >> ELSE <<>>)

Element(name) == << <<"start", name>>, <<"text">>, <<"end", name>> >>
CdataElement(name) == << <<"start", name>>, <<"end", name>> >>

\* the events of a well-formed feed of n items: rss > channel > (title, link,
\* description, lastBuildDate, item*), each item with title, link, guid,
\* pubDate, description and content:encoded; an empty title has no text
ItemEvents(item) ==
    << <<"start", "item">> >>
        \o (IF item.title = Some(<<>>) THEN CdataElement("title") ELSE Element("title"))
        \o Element("link") \o Element("guid") \o Element("pubDate")
        \o CdataElement("description") \o CdataElement("content:encoded")
        \o << <<"end", "item">> >>

RECURSIVE AllItemEvents(_)
AllItemEvents(its) ==
    IF its = <<>> THEN <<>> ELSE ItemEvents(Head(its)) \o AllItemEvents(Tail(its))

FeedEvents(its) ==
    << <<"start", "rss">>, <<"start", "channel">> >>
        \o Element("title") \o Element("link") \o Element("description")
        \o Element("lastBuildDate")
        \o AllItemEvents(its)
        \o << <<"end", "channel">>, <<"end", "rss">> >>

\* C13: in the document build_rss produces no raw '<', '&' or '>' of an item
\* or channel text appears outside a CDATA section (titles, links and the
\* channel texts are entity-escaped), and the elements are rss > channel >
\* item*, each item with title, link, guid, pubDate, description and
\* content:encoded, properly nested.
C13_EscapedAndWellFormed ==
    xpc = "rendered" =>
        LET events == Events(rss)
        IN  /\ \A i \in 1..Len(events) : events[i][1] \notin {"raw", "unclosed"}
            /\ events = FeedEvents(r_items)

\* a feed of two items whose titles, links and snippets hold '<', '>', '&',
\* quotes and "]]>"
C13_Witness ==
    /\ xpc = "rendered"
    /\ Len(r_items) = 2
    /\ \A i \in 1..2 :
        /\ "<" \in Range(r_items[i].title[1])
        /\ "&" \in Range(r_items[i].link[1])
    /\ \E i \in 1..Len(rss) : rss[i] = "&lt;" /\ rss[i - 1] = "A"

\* the characters of a token: of the entities html.escape writes, of the
\* tags paragraphs_to_html writes and of the CDATA marks; any other token is
\* a word without ']' and '>' or a single character
Chars(token) ==
    CASE token = "&amp;" -> <<"&", "a", "m", "p", ";">>
      [] token = "&lt;" -> <<"&", "l", "t", ";">>
      [] token = "&gt;" -> <<"&", "g", "t", ";">>
      [] token = "&quot;" -> <<"&", "q", "u", "o", "t", ";">>
      [] token = "&#x27;" -> <<"&", "#", "x", "2", "7", ";">>
      [] token = "<p>" -> <<"<", "p", ">">>
      [] token = "</p>" -> <<"<", "/", "p", ">">>
      [] token = CdataClose -> <<"]", "]", ">">>
      [] OTHER -> <<token>>

RECURSIVE Flatten(_)
Flatten(text) ==
    IF text = <<>> THEN <<>> ELSE Chars(Head(text)) \o Flatten(Tail(text))

\* the characters hold "]]>"
HasCdataEnd(chars) ==
    \E i \in 1..Len(chars) - 2 :
        chars[i] = "]" /\ chars[i + 1] = "]" /\ chars[i + 2] = ">"

\* C20: the content of an item, made by paragraphs_to_html from the snippets
\* (the fallback description among them), never holds "]]>", so in the
\* document each CDATA section ends at the "]]>" build_rss writes before the
\* end tag of description or content:encoded.
C20_NoCdataEndInContent ==
    /\ \A i \in 1..Len(r_items) : ~HasCdataEnd(Flatten(r_items[i].content))
    /\ xpc = "rendered" =>
        LET ends == {i \in 1..Len(rss) : CdataEndLen(rss, i) > 0}
            opens == {i \in 1..Len(rss) : rss[i] = CdataOpen}
        IN  /\ Cardinality(opens) = 2 * Len(r_items)
            /\ Cardinality(ends) = Cardinality(opens)
            /\ \A i \in ends :
                /\ rss[i] = CdataClose
                /\ rss[i + 1] \in {"</description>", "</content:encoded>"}

\* a document whose snippets hold "]]>": once from the body of the article
\* and once from the fallback description, both written as "]]&gt;"
C20_Witness ==
    /\ xpc = "rendered"
    /\ \E i \in 1..Len(rss) - 3 :
        rss[i] = "x" /\ rss[i + 1] = "]" /\ rss[i + 2] = "]" /\ rss[i + 3] = "&gt;"
    /\ \E i \in 1..Len(rss) - 4 :
        /\ rss[i] = "see" /\ rss[i + 2] = "]" /\ rss[i + 3] = "]"
        /\ rss[i + 4] = "&gt;"

(***************************************************************************)
(* The calls of extract_paragraphs on its own.                             *)
(***************************************************************************)
InitExtract ==
    /\ IdleCycle
    /\ body_html \in Documents
    /\ fallback_text \in FallbackTexts
    /\ paragraphs = <<>>
    /\ xpc = "call"
    /\ n_article = <<>>
    /\ n_detail = <<>>
    /\ n_item = <<>>
    /\ r_items = <<>>
    /\ rss = <<>>
    /\ served = None

\* one call of extract_paragraphs(body_html, fallback_text)
Extract ==
    /\ xpc = "call"
    /\ paragraphs' = extract_paragraphs(body_html, fallback_text)
    /\ xpc' = "returned"
    /\ UNCHANGED <<body_html, fallback_text, n_article, n_detail, n_item, r_items, rss,
                   served>>
    /\ UNCHANGED varsCycle

NextExtract == Extract

SpecExtract == InitExtract /\ [][NextExtract]_vars

(***************************************************************************)
(* Properties of extract_paragraphs (checked under SpecExtract).           *)
(***************************************************************************)
\* the texts of all non-empty p/blockquote/li nodes of the document, in
\* document order
NonEmptyTexts(doc) ==
    LET kept == SelectSeq(doc, LAMBDA e : e.tag \in BlockTags /\ NodeText(e) # <<>>)
    IN  [k \in 1..Len(kept) |-> NodeText(kept[k])]

FallbackSupplied == fallback_text # None /\ fallback_text[1] # <<>>

\* C4: extract_paragraphs returns, for every document and every fallback
\* text (None included), a list of at least 1 and at most 21 entries.
C4_ResultSize ==
    xpc = "returned" => Len(paragraphs) >= 1 /\ Len(paragraphs) <= 21

\* the two ends of C4: an empty document without fallback gives one entry,
\* a document of more than 20 non-empty nodes gives 21
C4_Witness ==
    /\ xpc = "returned"
    /\ \/ Len(NonEmptyTexts(body_html)) = 0 /\ fallback_text = None
          /\ Len(paragraphs) = 1
       \/ Len(NonEmptyTexts(body_html)) > 21 /\ Len(paragraphs) = 21

\* C5: the truncation marker is appended exactly when the document has more
\* than 20 non-empty block nodes, and the result is then the first 20 texts
\* followed by the marker; with 20 or fewer nodes the result holds the texts
\* and at most the fallback entries, and no marker is added.
C5_ReadRestIffMoreThanCap ==
    xpc = "returned" =>
        LET texts == NonEmptyTexts(body_html)
            total == Len(texts)
        IN  IF total > 20
            THEN paragraphs = SubSeq(texts, 1, 20) \o <<ReadRestText>>
            ELSE /\ SubSeq(paragraphs, 1, total) = texts
                 /\ \A i \in (total + 1)..Len(paragraphs) :
                        \/ paragraphs[i] = UnavailableText
                        \/ FallbackSupplied /\ paragraphs[i] = fallback_text[1]

\* 25 non-empty nodes: 20 texts and the marker
C5_Witness ==
    /\ xpc = "returned"
    /\ Len(NonEmptyTexts(body_html)) = 25
    /\ Len(paragraphs) = 21
    /\ paragraphs[21] = ReadRestText

\* C6: with at least 2 non-empty nodes and no fallback text the result is the
\* texts of the first min(n, 20) nodes in document order, and nothing else
\* unless n > 20.
C6_ExactSnippets ==
    (xpc = "returned" /\ fallback_text = None) =>
        LET texts == NonEmptyTexts(body_html)
            n == Len(texts)
        IN  n >= 2 =>
                /\ SubSeq(paragraphs, 1, Min(n, 20)) = SubSeq(texts, 1, Min(n, 20))
                /\ n <= 20 => Len(paragraphs) = n

\* a document with empty nodes between the texts, below the cap
C6_Witness ==
    /\ xpc = "returned"
    /\ fallback_text = None
    /\ Len(NonEmptyTexts(body_html)) \in 2..20
    /\ Len(find_all(body_html, BlockTags)) > Len(NonEmptyTexts(body_html))
    /\ paragraphs = NonEmptyTexts(body_html)

\* C7: with fewer than 2 texts collected the fallback text is appended when
\* one is supplied, and then the placeholder once if there are still fewer
\* than 2 entries.
C7_FallbackThenPlaceholder ==
    xpc = "returned" =>
        LET texts == NonEmptyTexts(body_html)
            withFallback ==
                IF FallbackSupplied THEN Append(texts, fallback_text[1]) ELSE texts
        IN  Len(texts) < 2 =>
                paragraphs =
                    IF Len(withFallback) < 2
                    THEN Append(withFallback, UnavailableText)
                    ELSE withFallback

\* an all-whitespace document with the fallback "hello"
C7_Witness ==
    /\ xpc = "returned"
    /\ body_html # <<>>
    /\ Len(NonEmptyTexts(body_html)) = 0
    /\ fallback_text = Some(<<"hello">>)
    /\ paragraphs = << <<"hello">>, UnavailableText >>

\* one text with a fallback, and one text without
C7_WitnessOneSnippet ==
    /\ xpc = "returned"
    /\ Len(NonEmptyTexts(body_html)) = 1
    /\ \/ fallback_text = Some(<<"hello">>)
          /\ paragraphs = NonEmptyTexts(body_html) \o << <<"hello">> >>
       \/ fallback_text = None
          /\ paragraphs = NonEmptyTexts(body_html) \o <<UnavailableText>>

====
